---- MODULE Spec2Model ----
(***************************************************************************)
(* Model of src/app.py, a Streamlit script.  Streamlit re-executes the     *)
(* whole script top to bottom on every user interaction; the only state    *)
(* that survives from one run to the next is st.session_state (the         *)
(* prediction history and the keyed investment selectbox), the values of   *)
(* the input widgets, and the process-wide cached loader results.          *)
(* Every action below is one interaction together with the script run(s)   *)
(* it triggers.  `display` is what the last run rendered.                  *)
(*                                                                         *)
(* The model file best_xgb_regressor.pkl is taken to have loaded: when it  *)
(* does not, line 8 raises on every run before any state exists.           *)
(* Floating point values that occur (prices, price per sqft, the lot       *)
(* ratio) are drawn from integers; the lot ratio is only evaluated on      *)
(* operands that divide exactly.                                           *)
(***************************************************************************)
EXTENDS Integers, Sequences, FiniteSets, TLC

VARIABLES predictions, investment_choice, inputs, scaler,
          city_condition_medians_df, display, lastAction

vars == <<predictions, investment_choice, inputs, scaler,
          city_condition_medians_df, display, lastAction>>

\* Longest history explored.
MaxHist == 2

\* Values model.predict may return (the pickled model is opaque).
Prices == {150, 300}

----------------------------------------------------------------------------
(* Static data of the script *)

city_mapping ==
    ("Shoreline" :> 1) @@ ("Kent" :> 2) @@ ("Bellevue" :> 3)
    @@ ("Redmond" :> 4) @@ ("Seattle" :> 5) @@ ("Maple Valley" :> 6)
    @@ ("North Bend" :> 7) @@ ("Lake Forest Park" :> 8) @@ ("Sammamish" :> 9)
    @@ ("Auburn" :> 10) @@ ("Des Moines" :> 11) @@ ("Bothell" :> 12)
    @@ ("Federal Way" :> 13) @@ ("Kirkland" :> 14) @@ ("Issaquah" :> 15)
    @@ ("Woodinville" :> 16) @@ ("Normandy Park" :> 17) @@ ("Fall City" :> 18)
    @@ ("Renton" :> 19) @@ ("Carnation" :> 20) @@ ("Snoqualmie" :> 21)
    @@ ("Duvall" :> 22) @@ ("Burien" :> 23) @@ ("Covington" :> 24)
    @@ ("Inglewood-Finn Hill" :> 25) @@ ("Kenmore" :> 26) @@ ("Newcastle" :> 27)
    @@ ("Black Diamond" :> 28) @@ ("Ravensdale" :> 29) @@ ("Clyde Hill" :> 30)
    @@ ("Algona" :> 31) @@ ("Mercer Island" :> 32) @@ ("Skykomish" :> 33)
    @@ ("Tukwila" :> 34) @@ ("Vashon" :> 35) @@ ("SeaTac" :> 36)
    @@ ("Enumclaw" :> 37) @@ ("Snoqualmie Pass" :> 38) @@ ("Pacific" :> 39)
    @@ ("Beaux Arts Village" :> 40) @@ ("Preston" :> 41) @@ ("Milton" :> 42)
    @@ ("Yarrow Point" :> 43) @@ ("Medina" :> 44)

current_year == 2014

DefaultPricePerSqft == 200

\* float(bathrooms): the option strings denote multiples of one half; the
\* value is kept in tenths so that it stays an integer.
BathroomsFloat(s) == CASE s = "0.5" -> 5  [] s = "1" -> 10 [] s = "1.5" -> 15
                       [] s = "2" -> 20   [] s = "2.5" -> 25 [] s = "3" -> 30
                       [] s = "3.5" -> 35 [] s = "4" -> 40 [] s = "4.5" -> 45
                       [] s = "5" -> 50

\* Values each input widget can be moved to (samples of the slider and
\* selectbox ranges of lines 311-327).
YrBuiltValues == {2000, 2014}
YrRenovatedValues == {0, 2005}

InvestmentOptions == {"Select an option", "Minimal Capital Investment",
                      "High Capital Investment"}

\* Widget defaults of lines 311-327.
DefaultInputs ==
    [sqft_lot |-> 10000, sqft_living_above |-> 2000, yr_built |-> 2000,
     yr_renovated |-> 0, city |-> "Shoreline", has_basement |-> 0,
     bedrooms |-> 3, bathrooms |-> "2", floors |-> 1, view |-> 0,
     condition |-> 3]

\* Results load_city_condition_medians can return: None (load failed) or a
\* table of rows; one sample table holds a row for the pair the widgets
\* select (Shoreline = 1, condition 3), the other holds rows that share only
\* the city or only the condition with it.
MediansNone == [loaded |-> FALSE, rows |-> <<>>]
MediansHit ==
    [loaded |-> TRUE,
     rows |-> << [city |-> 1, condition |-> 4, expected_price_per_sqft |-> 300],
                 [city |-> 1, condition |-> 3, expected_price_per_sqft |-> 250],
                 [city |-> 5, condition |-> 3, expected_price_per_sqft |-> 280] >>]
MediansMiss ==
    [loaded |-> TRUE,
     rows |-> << [city |-> 1, condition |-> 4, expected_price_per_sqft |-> 300],
                 [city |-> 5, condition |-> 3, expected_price_per_sqft |-> 280] >>]
MediansValues == {MediansNone, MediansHit, MediansMiss}

----------------------------------------------------------------------------
(* Feature derivation, lines 195-207 and 336-355 *)

MatchingRows(city, condition, rows) ==
    SelectSeq(rows, LAMBDA r : r.city = city /\ r.condition = condition)

price_per_sqft_by_city_only(city, condition, medians_df) ==
    IF ~medians_df.loaded
    THEN DefaultPricePerSqft
    ELSE LET result == SelectSeq(medians_df.rows, LAMBDA r : r.city = city)
         IN  IF result # <<>>
             THEN result[1].expected_price_per_sqft
             ELSE DefaultPricePerSqft

calculate_expected_price_per_sqft_single(city, condition, medians_df) ==
    IF ~medians_df.loaded
    THEN DefaultPricePerSqft
    ELSE LET result == MatchingRows(city, condition, medians_df.rows)
         IN  IF result # <<>>
             THEN result[1].expected_price_per_sqft
             ELSE DefaultPricePerSqft

property_age_of(yr_built) == current_year - yr_built

renewed_age_unguarded(yr_built, yr_renovated) == current_year - yr_renovated

renewed_age_of(yr_built, yr_renovated) ==
    LET effective_yr_renovated ==
            IF yr_renovated = 0 THEN yr_built ELSE yr_renovated
    IN  current_year - effective_yr_renovated

lot_to_living_ratio_of(sqft_lot, sqft_living_above) ==
    IF sqft_living_above > 0 THEN sqft_lot \div sqft_living_above ELSE 0

\* The dict literal of lines 389-408.
prediction_data(predicted_price, inp, medians_df) ==
    [price |-> predicted_price,
     features |->
        [bedrooms |-> inp.bedrooms,
         bathrooms |-> BathroomsFloat(inp.bathrooms),
         floors |-> inp.floors,
         sqft_lot |-> inp.sqft_lot,
         sqft_living_above |-> inp.sqft_living_above,
         yr_built |-> inp.yr_built,
         yr_renovated |-> inp.yr_renovated,
         has_basement |-> IF inp.has_basement # 0 THEN "Yes" ELSE "No",
         view |-> inp.view,
         condition |-> inp.condition,
         city |-> inp.city,
         property_age |-> property_age_of(inp.yr_built),
         renewed_age |-> renewed_age_of(inp.yr_built, inp.yr_renovated),
         lot_to_living_ratio |->
             lot_to_living_ratio_of(inp.sqft_lot, inp.sqft_living_above),
         expected_price_per_sqft |->
             calculate_expected_price_per_sqft_single(
                 city_mapping[inp.city], inp.condition, medians_df)]]

----------------------------------------------------------------------------
(* Investment comparator, lines 231-244 *)

\* prices = [pred['price'] for pred in st.session_state.predictions]
PricesOf(preds) == [i \in 1..Len(preds) |-> preds[i].price]

\* Python's min(): keeps the running smallest, replaced only by a strictly
\* smaller item.
RECURSIVE PyMinFrom(_, _, _)
PyMinFrom(seq, i, m) ==
    IF i > Len(seq) THEN m
    ELSE PyMinFrom(seq, i + 1, IF seq[i] < m THEN seq[i] ELSE m)

PyMin(seq) == PyMinFrom(seq, 2, seq[1])

\* Python's max(): replaced only by a strictly larger item.
RECURSIVE PyMaxFrom(_, _, _)
PyMaxFrom(seq, i, m) ==
    IF i > Len(seq) THEN m
    ELSE PyMaxFrom(seq, i + 1, IF seq[i] > m THEN seq[i] ELSE m)

PyMax(seq) == PyMaxFrom(seq, 2, seq[1])

PyIndexLast(seq, v) ==
    CHOOSE i \in 1..Len(seq) :
        seq[i] = v /\ \A j \in (i + 1)..Len(seq) : seq[j] # v

\* list.index(v): position of the first item equal to v (1-based here).
PyIndex(seq, v) ==
    CHOOSE i \in 1..Len(seq) :
        seq[i] = v /\ \A j \in 1..(i - 1) : seq[j] # v

\* Index picked by lines 235-244 for a strategy other than
\* "Select an option"; the history is non-empty here (guard of line 213).
SelectedIdx(preds, choice) ==
    LET prices == PricesOf(preds)
    IN  IF choice = "Minimal Capital Investment"
        THEN PyIndex(prices, PyMin(prices))
        ELSE PyIndex(prices, PyMax(prices))

\* The sidebar block, lines 210-279, without the clear button's handler.
\* `selected` holds the record shown, or is empty when none is shown.
Sidebar(preds, choice) ==
    IF Len(preds) = 0
    THEN [info |-> TRUE, total |-> 0, selectbox |-> FALSE,
          selected_idx |-> 0, selected |-> <<>>]
    ELSE IF choice # "Select an option"
         THEN [info |-> FALSE, total |-> Len(preds), selectbox |-> TRUE,
               selected_idx |-> SelectedIdx(preds, choice),
               selected |-> << preds[SelectedIdx(preds, choice)] >>]
         ELSE [info |-> FALSE, total |-> Len(preds), selectbox |-> TRUE,
               selected_idx |-> 0, selected |-> <<>>]

----------------------------------------------------------------------------
(* Prediction logic, lines 335-433 *)

\* Stages of the try block that can raise: scaler.transform is only called
\* when a scaler is loaded.
FailStages(sc) == IF sc = "None" THEN {"prediction"}
                  ELSE {"scaling", "prediction"}

NoMain == [error |-> "none", prediction_number |-> 0,
           predict_warning |-> FALSE, normalization_applied |-> "n/a"]

PredictLogicAppendOnError(preds, inp, sc, medians_df, stage, price) ==
    [predictions |-> Append(preds, prediction_data(price, inp, medians_df)),
     main |-> [error |-> stage,
               prediction_number |-> IF stage = "none" THEN Len(preds) + 1 ELSE 0,
               predict_warning |-> (sc = "None"),
               normalization_applied |-> "n/a"]]

PredictLogicInsertFirst(preds, inp, sc, medians_df, stage, price) ==
    IF stage # "none"
    THEN [predictions |-> preds,
          main |-> [error |-> stage, prediction_number |-> 0,
                    predict_warning |-> (sc = "None"),
                    normalization_applied |-> "n/a"]]
    ELSE LET after == <<prediction_data(price, inp, medians_df)>> \o preds
         IN  [predictions |-> after,
              main |-> [error |-> "none",
                        prediction_number |-> Len(after),
                        predict_warning |-> (sc = "None"),
                        normalization_applied |->
                            IF sc # "None" THEN "Yes" ELSE "No"]]

\* stage = "none": the try block runs to its end; otherwise the named call
\* raises and the except clause of line 432 reports it.
PredictLogic(preds, inp, sc, medians_df, stage, price) ==
    IF stage # "none"
    THEN [predictions |-> preds,
          main |-> [error |-> stage, prediction_number |-> 0,
                    predict_warning |-> (sc = "None"),
                    normalization_applied |-> "n/a"]]
    ELSE LET after == Append(preds, prediction_data(price, inp, medians_df))
         IN  [predictions |-> after,
              main |-> [error |-> "none",
                        prediction_number |-> Len(after),
                        predict_warning |-> (sc = "None"),
                        normalization_applied |->
                            IF sc # "None" THEN "Yes" ELSE "No"]]

ScriptRunSidebarPops(preds, choice, inp, sc, medians_df, predict_clicked, stage, price) ==
    LET side == Sidebar(preds, choice)
        kept == IF side.selected_idx = 0 THEN preds
                ELSE SubSeq(preds, 1, side.selected_idx - 1)
                     \o SubSeq(preds, side.selected_idx + 1, Len(preds))
        res == IF predict_clicked
               THEN PredictLogic(kept, inp, sc, medians_df, stage, price)
               ELSE [predictions |-> kept, main |-> NoMain]
    IN  [predictions |-> res.predictions,
         display |-> [sidebar |-> side,
                      scaler_warning |-> (sc = "None"),
                      main |-> res.main]]

ScriptRunSidebarLast(preds, choice, inp, sc, medians_df, predict_clicked, stage, price) ==
    LET res == IF predict_clicked
               THEN PredictLogic(preds, inp, sc, medians_df, stage, price)
               ELSE [predictions |-> preds, main |-> NoMain]
    IN  [predictions |-> res.predictions,
         display |-> [sidebar |-> Sidebar(res.predictions, choice),
                      scaler_warning |-> (sc = "None"),
                      main |-> res.main]]

\* One complete run of the script, lines 209-433, in which the clear button
\* was not clicked: sidebar first, then the loader warning, then the
\* prediction block.
ScriptRun(preds, choice, inp, sc, medians_df, predict_clicked, stage, price) ==
    LET side == Sidebar(preds, choice)
        res == IF predict_clicked
               THEN PredictLogic(preds, inp, sc, medians_df, stage, price)
               ELSE [predictions |-> preds, main |-> NoMain]
    IN  [predictions |-> res.predictions,
         display |-> [sidebar |-> side,
                      scaler_warning |-> (sc = "None"),
                      main |-> res.main]]

----------------------------------------------------------------------------
(* State machine *)

\* Keys the script ever stores in st.session_state (line 27 and the keyed
\* widgets of lines 227 and 277).
SessionStateKeys == {"predictions", "investment_selectbox", "clear_predictions"}

\* The first run of a session: lines 26-27 create the empty history.
Init ==
    /\ predictions = <<>>
    /\ investment_choice = "Select an option"
    /\ inputs = DefaultInputs
    /\ scaler \in {"None", "MinMaxScaler"}
    /\ city_condition_medians_df \in MediansValues
    /\ display = ScriptRun(<<>>, "Select an option", DefaultInputs, scaler,
                           city_condition_medians_df, FALSE, "none", 0).display
    /\ lastAction = "start"

\* The script run triggered by an interaction other than the clear button.
Rerun(choice, inp, predict_clicked, stage, price) ==
    LET run == ScriptRun(predictions, choice, inp, scaler,
                         city_condition_medians_df, predict_clicked, stage, price)
    IN  /\ predictions' = run.predictions
        /\ display' = run.display
        /\ investment_choice' = choice
        /\ inputs' = inp
        /\ UNCHANGED <<scaler, city_condition_medians_df>>

\* The user moves one of the input widgets of lines 311-327.
ChangeInput ==
    /\ \E inp \in { [inputs EXCEPT !.yr_built = y] : y \in YrBuiltValues }
            \cup { [inputs EXCEPT !.yr_renovated = y] : y \in YrRenovatedValues } :
          /\ inp # inputs
          /\ Rerun(investment_choice, inp, FALSE, "none", 0)
    /\ lastAction' = "input"

\* The user picks a strategy in the selectbox of line 224, which exists
\* only when the last run rendered it.
ChangeStrategy ==
    /\ display.sidebar.selectbox
    /\ \E c \in InvestmentOptions :
          /\ c # investment_choice
          /\ Rerun(c, inputs, FALSE, "none", 0)
    /\ lastAction' = "strategy"

\* 'Predict Property Price' clicked and inference succeeds.
PredictOk ==
    /\ Len(predictions) < MaxHist
    /\ \E price \in Prices :
          Rerun(investment_choice, inputs, TRUE, "none", price)
    /\ lastAction' = "predict_ok"

\* 'Predict Property Price' clicked and scaler.transform or model.predict
\* raises.
PredictFail ==
    /\ \E stage \in FailStages(scaler), price \in Prices :
          Rerun(investment_choice, inputs, TRUE, stage, price)
    /\ lastAction' = "predict_fail"

ClearKeepsHistory(preds) == preds

\* Line 278.
ClearedHistory(preds) == <<>>

\* 'Clear All Predictions' clicked (the button exists only when the last
\* run rendered a non-empty history): the run sets the history to [] and
\* calls st.rerun(); the rerun is a complete run on the new history.  In
\* it the keyed selectbox is not rendered, so Streamlit drops its value.
ClearPredictions ==
    /\ display.sidebar.selectbox
    /\ LET cleared == ClearedHistory(predictions)
           choice == IF Len(cleared) = 0 THEN "Select an option"
                     ELSE investment_choice
           run == ScriptRun(cleared, choice, inputs, scaler,
                            city_condition_medians_df, FALSE, "none", 0)
       IN  /\ predictions' = run.predictions
           /\ display' = run.display
           /\ investment_choice' = choice
    /\ lastAction' = "clear"
    /\ UNCHANGED <<inputs, scaler, city_condition_medians_df>>

Next == ChangeInput \/ ChangeStrategy \/ PredictOk \/ PredictFail
        \/ ClearPredictions

Spec == Init /\ [][Next]_vars

----------------------------------------------------------------------------
(* Properties *)

Strategies == {"Minimal Capital Investment", "High Capital Investment"}

LastRecord == predictions[Len(predictions)]

\* C1: a predict action whose inference fails leaves the history exactly as
\* it was (same records, same order).
C1_FailedPredictKeepsHistory ==
    [][lastAction' = "predict_fail" =>
          /\ predictions' = predictions
          /\ display'.main.error \in {"scaling", "prediction"}]_vars

C1_Witness ==
    /\ lastAction = "predict_fail"
    /\ display.main.error = "scaling"
    /\ Len(predictions) >= 1

\* C2: a successful predict lengthens the history by exactly one, the new
\* record (price and snapshot of the submitted inputs) is the last element,
\* and the earlier records are unchanged and in their original order.
C2_SuccessfulPredictAppends ==
    [][lastAction' = "predict_ok" =>
          /\ Len(predictions') = Len(predictions) + 1
          /\ SubSeq(predictions', 1, Len(predictions)) = predictions
          /\ LET new == predictions'[Len(predictions')]
             IN  /\ new.price \in Prices
                 /\ new.features.yr_built = inputs.yr_built
                 /\ new.features.yr_renovated = inputs.yr_renovated
                 /\ new.features.city = inputs.city
                 /\ new.features.condition = inputs.condition
                 /\ new.features.sqft_lot = inputs.sqft_lot
                 /\ new.features.sqft_living_above = inputs.sqft_living_above]_vars

C2_Witness ==
    /\ lastAction = "predict_ok"
    /\ Len(predictions) >= 2
    /\ predictions[1] # LastRecord

\* C3: after a clear-history action the history read by the next run is
\* empty and the sidebar shows the 'no predictions' state, no comparison.
C3_ClearEmptiesHistory ==
    lastAction = "clear" =>
        /\ predictions = <<>>
        /\ display.sidebar.info
        /\ display.sidebar.total = 0
        /\ display.sidebar.selected = <<>>

C3_Witness ==
    /\ lastAction = "clear"
    /\ predictions = <<>>
    /\ display.sidebar.info

\* Reference linear scan: the first record is the candidate and a later one
\* replaces it only when strictly better; 0 on an empty history.
RECURSIVE RefScanFrom(_, _, _, _)
RefScanFrom(preds, strategy, i, best) ==
    IF i > Len(preds) THEN best
    ELSE IF strategy = "Minimal Capital Investment"
         THEN RefScanFrom(preds, strategy, i + 1,
                  IF preds[i].price < preds[best].price THEN i ELSE best)
         ELSE RefScanFrom(preds, strategy, i + 1,
                  IF preds[i].price > preds[best].price THEN i ELSE best)

RefScan(preds, strategy) ==
    IF Len(preds) = 0 THEN 0 ELSE RefScanFrom(preds, strategy, 2, 1)

\* C4: the comparator agrees with the reference linear scan for every
\* history and both strategies: nothing on an empty history, otherwise the
\* record at the smallest index holding the minimum (MinPrice) or the
\* maximum (MaxPrice) price.
C4_ComparatorMatchesLinearScan ==
    /\ \A c \in Strategies :
          LET side == Sidebar(predictions, c)
              ref == RefScan(predictions, c)
          IN  IF predictions = <<>>
              THEN side.selected = <<>>
              ELSE /\ side.selected_idx = ref
                   /\ side.selected = << predictions[ref] >>
                   /\ \A j \in 1..Len(predictions) :
                         IF c = "Minimal Capital Investment"
                         THEN /\ predictions[ref].price <= predictions[j].price
                              /\ j < ref => predictions[j].price > predictions[ref].price
                         ELSE /\ predictions[ref].price >= predictions[j].price
                              /\ j < ref => predictions[j].price < predictions[ref].price
    /\ display.sidebar.selected # <<>> =>
          /\ display.sidebar.total \in 1..Len(predictions)
          /\ display.sidebar.selected_idx =
                RefScan(SubSeq(predictions, 1, display.sidebar.total),
                        investment_choice)

C4_Witness ==
    /\ Len(predictions) >= 2
    /\ predictions[1].price = predictions[2].price
    /\ predictions[1] # predictions[2]
    /\ investment_choice = "Minimal Capital Investment"
    /\ display.sidebar.selected = << predictions[1] >>
    /\ display.sidebar.total = Len(predictions)

\* C5: the history is empty at session start and changes only by a
\* successful predict (one record appended) or by clear (reset to empty);
\* input changes, strategy changes and failed predicts leave it unchanged.
C5_HistoryFrame ==
    /\ predictions = <<>>
    /\ [][/\ predictions' # predictions =>
                \/ /\ lastAction' = "predict_ok"
                   /\ \E p \in Prices :
                         predictions' = Append(predictions,
                             prediction_data(p, inputs, city_condition_medians_df))
                \/ /\ lastAction' = "clear"
                   /\ predictions' = <<>>
          /\ lastAction' \in {"input", "strategy", "predict_fail"} =>
                predictions' = predictions]_vars

C5_Witness ==
    /\ lastAction = "strategy"
    /\ display.sidebar.selected # <<>>
    /\ Len(predictions) >= 2

\* Keys under which a record or the session could carry a normalization mark.
NormalizationMarks == {"unnormalized", "normalized", "normalization_applied"}

RecordMarked(r) ==
    (DOMAIN r \cup DOMAIN r.features) \cap NormalizationMarks # {}

SessionMarked == SessionStateKeys \cap NormalizationMarks # {}

\* C6: when the scaler failed to load a predict still succeeds, a
\* degraded-mode warning is shown, and the appended record (or at least the
\* session) is marked as unnormalized.
C6_UnnormalizedRecordMarked ==
    (scaler = "None" /\ lastAction = "predict_ok") =>
        /\ display.main.predict_warning
        /\ display.scaler_warning
        /\ RecordMarked(LastRecord) \/ SessionMarked

\* C7: every record has property_age = 2014 - yr_built and renewed_age =
\* 2014 - (yr_built if yr_renovated = 0 else yr_renovated); yr_renovated = 0
\* gives renewed_age = property_age.
C7_AgeDerivation ==
    \A i \in 1..Len(predictions) :
        LET f == predictions[i].features
        IN  /\ f.property_age = 2014 - f.yr_built
            /\ f.yr_renovated = 0 => f.renewed_age = 2014 - f.yr_built
            /\ f.yr_renovated # 0 => f.renewed_age = 2014 - f.yr_renovated
            /\ f.yr_renovated = 0 => f.renewed_age = f.property_age

C7_Witness ==
    \E i, j \in 1..Len(predictions) :
        /\ predictions[i].features.yr_renovated = 0
        /\ predictions[i].features.renewed_age = 14
        /\ predictions[j].features.yr_renovated # 0
        /\ predictions[j].features.renewed_age = 9

\* C8: the expected price per square foot of a record is exactly 200 when
\* the table failed to load or has no row for the (city code, condition)
\* pair, and the table's value for the pair otherwise; predictions succeed
\* without a table.
C8_PricePerSqftFallback ==
    \A i \in 1..Len(predictions) :
        LET f == predictions[i].features
            t == city_condition_medians_df
            hits == { k \in 1..Len(t.rows) :
                        /\ t.rows[k].city = city_mapping[f.city]
                        /\ t.rows[k].condition = f.condition }
        IN  IF ~t.loaded \/ hits = {}
            THEN f.expected_price_per_sqft = 200
            ELSE \E k \in hits :
                    f.expected_price_per_sqft = t.rows[k].expected_price_per_sqft

C8_Witness ==
    /\ ~city_condition_medians_df.loaded
    /\ lastAction = "predict_ok"
    /\ LastRecord.features.expected_price_per_sqft = 200

\* C9: every input that reaches feature derivation has yr_renovated = 0 or
\* yr_renovated >= yr_built, so every record has
\* 0 <= renewed_age <= property_age.
C9_RenovationDomain ==
    \A i \in 1..Len(predictions) :
        LET f == predictions[i].features
        IN  /\ f.yr_renovated = 0 \/ f.yr_renovated >= f.yr_built
            /\ 0 <= f.renewed_age
            /\ f.renewed_age <= f.property_age

\* C10: in the run of a successful predict the sidebar shows the history as
\* it was before the append (its total is one less than the 'Prediction #N'
\* of the main panel); the next run's sidebar includes the new record.
C10_SidebarBeforePredict ==
    /\ [](lastAction = "predict_ok" =>
            /\ display.main.prediction_number = Len(predictions)
            /\ display.sidebar.total = display.main.prediction_number - 1
            /\ display.sidebar =
                  Sidebar(SubSeq(predictions, 1, Len(predictions) - 1),
                          investment_choice))
    /\ [][(lastAction = "predict_ok"
            /\ lastAction' \in {"input", "strategy", "predict_fail"}) =>
               /\ display'.sidebar.total = Len(predictions)
               /\ display'.sidebar = Sidebar(predictions, investment_choice')]_vars

C10_Witness ==
    /\ lastAction = "predict_ok"
    /\ display.sidebar.total >= 1
    /\ display.sidebar.selected # <<>>
    /\ display.sidebar.selected # << LastRecord >>

====
